---- MODULE Spec2Model ----
(***************************************************************************)
(* natural-time-js: the NaturalDate constructor and its year-context       *)
(* cache (src/src/core/NaturalDate.ts), as a state machine.                *)
(*                                                                         *)
(* Numbers.  A JavaScript time value (integer milliseconds since the Unix  *)
(* epoch) is kept as the pair [d, ms] standing for                         *)
(*     d * MILLISECONDS_PER_DAY + ms,   0 <= ms < MILLISECONDS_PER_DAY,    *)
(* because time values of this century do not fit 32-bit integers.         *)
(* A difference of two time values is kept in the same form, so that       *)
(* Math.floor(x / MILLISECONDS_PER_DAY) is the d component.                *)
(* A longitude is an integer count of 1/LonScale degree; LonScale is       *)
(* chosen so that one unit of longitude is half a millisecond of the       *)
(* Earth's rotation: whole-degree longitudes and longitudes whose shift    *)
(* is not a whole millisecond are both representable.                      *)
(* A natural time in degrees is kept as a count of 360/MILLISECONDS_PER_DAY*)
(* degree (one millisecond of rotation), the exact value of                *)
(* (unixTime - nadir) * 360 / MILLISECONDS_PER_DAY.                        *)
(***************************************************************************)
EXTENDS Integers, FiniteSets, Sequences, TLC

VARIABLES
    dec_solstice,      \* the oracle: Seasons(year).dec_solstice.date, per year
    yearContextCache,  \* Map<string, YearContext>, keyed by CacheKey
    given,             \* the last constructor call: its arguments, and whether it returned
    date,              \* the NaturalDate last constructed
    context,           \* the value last returned by calculateYearContext
    event,             \* the value last returned by getTimeOfEvent
    astroCache,        \* Map<string, SunEvents | MoonEvents | MustachesRange>
    sun,               \* the outcome of the last NaturalSunEvents call
    moon,              \* the outcome of the last call of a moon operation
    sky,               \* the oracle: which sky the searches of astronomy-engine see
    range,             \* the outcome of the last MustachesRange call
    utcOffset,         \* the time zone of the process: minutes east of UTC
    callers,           \* each concurrent caller: its request, its step, its value
    thrown             \* the error the last operation raised, "" if none

vars == <<dec_solstice, yearContextCache, given, date, context,
          event, astroCache, sun, moon, sky, range, utcOffset, callers,
          thrown>>

\* the state the NaturalDate constructor does not touch
celestial == <<event, astroCache, sun, moon, sky, range, utcOffset, callers>>

MILLISECONDS_PER_DAY == 86400000

\* ms offsets sampled on each side of a local midnight
MsWindow == 1

\* entries of the year-context cache past which no more constructor calls
\* on arbitrary arguments are explored
MaxCached == 2

\* callers at work at the same time on the two caches
MaxCallers == 2

----------------------------------------------------------------------------
(* Time values *)

\* the element of a one-element set
Only(S) == CHOOSE x \in S : TRUE

Instant(d, ms) ==
    [d |-> d + (ms \div MILLISECONDS_PER_DAY), ms |-> ms % MILLISECONDS_PER_DAY]

Plus(t, ms) == Instant(t.d, t.ms + ms)

PlusDays(t, n) == [d |-> t.d + n, ms |-> t.ms]

\* a - b, as whole days (floor) and the remaining milliseconds
Minus(a, b) == Instant(a.d - b.d, a.ms - b.ms)

Before(a, b) == a.d < b.d \/ (a.d = b.d /\ a.ms < b.ms)

NotAfter(a, b) == a = b \/ Before(a, b)

\* the JavaScript % operator: the result takes the sign of the dividend
JsRem(a, n) == IF a >= 0 THEN a % n ELSE -((-a) % n)

----------------------------------------------------------------------------
(* The Date built-ins the code calls (ECMAScript MakeDay, YearFromTime,    *)
(* MonthFromTime, DateFromTime, HourFromTime) on the proleptic Gregorian   *)
(* calendar.  Months are 0..11 as in JavaScript.                           *)

\* day number of the first day of month m (0..11) of year y
DayFromYearMonth(y, m) ==
    LET yy  == IF m < 2 THEN y - 1 ELSE y
        era == yy \div 400
        yoe == yy - era * 400
        mp  == IF m < 2 THEN m + 10 ELSE m - 2
        doy == (153 * mp + 2) \div 5
        doe == yoe * 365 + (yoe \div 4) - (yoe \div 100) + doy
    IN  era * 146097 + doe - 719468

\* MakeDay: a date past the month's end runs into the following months
MakeDay(y, m, dt) == DayFromYearMonth(y + (m \div 12), m % 12) + dt - 1

\* Date.UTC(year, month, date, hours, minutes, seconds)
DateUTC(y, m, dt, h, mi, s) ==
    Instant(MakeDay(y, m, dt), h * 3600000 + mi * 60000 + s * 1000)

\* YearFromTime, MonthFromTime and DateFromTime of a time value.  (Each
\* intermediate value is bound once, as the element of a one-element set.)
Civil(t) ==
    LET era == (t.d + 719468) \div 146097
    IN  Only({ Only({ Only({ Only({
            [year  |-> yoe + era * 400 + (IF mp < 10 THEN 0 ELSE 1),
             month |-> IF mp < 10 THEN mp + 2 ELSE mp - 10,
             date  |-> doy - ((153 * mp + 2) \div 5) + 1]
            : mp  \in {(5 * doy + 2) \div 153} })
            : doy \in {doe - (365 * yoe + (yoe \div 4) - (yoe \div 100))} })
            : yoe \in {(doe - (doe \div 1460) + (doe \div 36524)
                               - (doe \div 146096)) \div 365} })
            : doe \in {(t.d + 719468) % 146097} })

getUTCFullYear(t) == Civil(t).year

getUTCMonth(t) == Civil(t).month

getUTCDate(t) == Civil(t).date

getUTCHours(t) == t.ms \div 3600000

----------------------------------------------------------------------------
(* Longitudes *)

\* units of longitude per degree: one unit is half a millisecond of rotation
LonScale == 2 * (MILLISECONDS_PER_DAY \div 360)

Degrees(n) == n * LonScale

\* the shift with the sign of the longitude reversed
LongitudeShiftWest(longitude) == longitude + Degrees(180)

\* (-longitude + 180) * MILLISECONDS_PER_DAY/360, in half-milliseconds
LongitudeShift(longitude) == -longitude + Degrees(180)

\* parseInt(String(t + halves/2)): the decimal string of the sum, read up to
\* its decimal point, which drops the fraction towards zero
parseInt(t, halves) ==
    LET whole == Plus(t, halves \div 2)
    IN  IF whole.d < 0 /\ halves % 2 # 0 THEN Plus(whole, 1) ELSE whole

----------------------------------------------------------------------------
(* The oracle.  Seasons(year).dec_solstice.date as astronomy-engine gives  *)
(* it, to the minute, for the years the sampled instants need.             *)

Almanac ==
    (1967 :> DateUTC(1967, 11, 22, 13, 16, 0)) @@
    (1968 :> DateUTC(1968, 11, 21, 19, 0, 0)) @@
    (1969 :> DateUTC(1969, 11, 22, 0, 44, 0)) @@
    (1970 :> DateUTC(1970, 11, 22, 6, 36, 0)) @@
    (1971 :> DateUTC(1971, 11, 22, 12, 24, 0)) @@
    (2010 :> DateUTC(2010, 11, 21, 23, 38, 0)) @@
    (2011 :> DateUTC(2011, 11, 22, 5, 30, 0)) @@
    (2012 :> DateUTC(2012, 11, 21, 11, 12, 0)) @@
    (2013 :> DateUTC(2013, 11, 21, 17, 11, 0)) @@
    (2014 :> DateUTC(2014, 11, 21, 23, 3, 0))

----------------------------------------------------------------------------
(* calculateYearContext *)

\* a key that leaves the longitude out
CacheKeyYearOnly(artificialYear, longitude) == <<artificialYear, 0>>

\* `${artificialYear}_${longitude}`
CacheKey(artificialYear, longitude) == <<artificialYear, longitude>>

\* the roll taken only after the noon hour
StartNewYearAfterNoon(solstice) ==
    Only({ DateUTC(c.year, c.month,
                   c.date + (IF getUTCHours(solstice) > 12 THEN 1 ELSE 0),
                   12, 0, 0)
           : c \in {Civil(solstice)} })

\* Date.UTC(y, m, d + (hours >= 12 ? 1 : 0), 12, 0, 0) of a solstice
StartNewYear(solstice) ==
    Only({ DateUTC(c.year, c.month,
                   c.date + (IF getUTCHours(solstice) >= 12 THEN 1 ELSE 0),
                   12, 0, 0)
           : c \in {Civil(solstice)} })

\* the context built on a cache miss.  Both new-year instants are at
\* 12:00:00.000, so the quotient of their difference by a day is whole.
YearContext(artificialYear, longitude) ==
    LET startSolstice == dec_solstice[artificialYear]
        endSolstice   == dec_solstice[artificialYear + 1]
        startNewYear  == StartNewYear(startSolstice)
        endNewYear    == StartNewYear(endSolstice)
    IN  [start    |-> parseInt(startNewYear, LongitudeShift(longitude)),
         duration |-> Minus(endNewYear, startNewYear).d]

\* the call: the cached context on a hit, else the new one, stored
calculateYearContext(cache, artificialYear, longitude) ==
    LET cacheKey == CacheKey(artificialYear, longitude)
    IN  IF cacheKey \in DOMAIN cache
        THEN [context |-> cache[cacheKey], cache |-> cache, hit |-> TRUE]
        ELSE Only({ [context |-> ctx, cache |-> (cacheKey :> ctx) @@ cache,
                     hit |-> FALSE]
                    : ctx \in {YearContext(artificialYear, longitude)} })

\* Seasons(year) throws: the oracle has no solstice for the year
SeasonsThrows(year) == year \notin DOMAIN dec_solstice

\* the call throws: the key is absent and one of the two Seasons calls throws
ContextThrows(cache, artificialYear, longitude) ==
    /\ CacheKey(artificialYear, longitude) \notin DOMAIN cache
    /\ SeasonsThrows(artificialYear) \/ SeasonsThrows(artificialYear + 1)

\* an entry stored under the key before Seasons is called
CacheIfStoredFirst(cache, artificialYear, longitude) ==
    (CacheKey(artificialYear, longitude) :> [start |-> Instant(0, 0), duration |-> 0])
        @@ cache

\* the cache after a call that threw: yearContextCache.set comes after both
\* Seasons calls
CacheOnThrow(cache, artificialYear, longitude) == cache

----------------------------------------------------------------------------
(* The NaturalDate constructor *)

END_OF_ARTIFICIAL_TIME == DateUTC(2012, 11, 21, 12, 0, 0)

\* the correction with > in place of >=
NeedsCorrectionStrict(unixTime, yearContext) ==
    \/ Minus(unixTime, yearContext.start).d > yearContext.duration
    \/ /\ Minus(unixTime, yearContext.start).d = yearContext.duration
       /\ Minus(unixTime, yearContext.start).ms > 0

\* the correction left out
NeverCorrect(unixTime, yearContext) == FALSE

\* this.unixTime - yearContext.start >= yearContext.duration * MILLISECONDS_PER_DAY
NeedsCorrection(unixTime, yearContext) ==
    Minus(unixTime, yearContext.start).d >= yearContext.duration

\* Math.round in place of Math.floor
RoundDays(sinceYearStart) ==
    sinceYearStart.d + (IF 2 * sinceYearStart.ms >= MILLISECONDS_PER_DAY THEN 1 ELSE 0)

RECURSIVE LeadingDigit(_)
LeadingDigit(n) == IF n < 10 THEN n ELSE LeadingDigit(n \div 10)

\* parseInt in place of Math.floor, as in src/src/core/NaturalDate.js: a
\* quotient under 1e-6 is written with an exponent ("1.1574074074074074e-8")
\* and parseInt reads its leading digit
ParseIntDays(sinceYearStart) ==
    IF sinceYearStart.d = 0 /\ sinceYearStart.ms > 0 /\ sinceYearStart.ms < 87
    THEN LeadingDigit((sinceYearStart.ms * 10000000) \div 864)
    ELSE sinceYearStart.d

\* Math.floor(timeSinceLocalYearStart), of (unixTime - yearStart) / MILLISECONDS_PER_DAY
FloorDays(sinceYearStart) == sinceYearStart.d

\* the rainbow test one day early
IsRainbowDayFrom364(dayOfYear) == dayOfYear >= 13 * 28

\* this.dayOfYear > 13*28
IsRainbowDay(dayOfYear) == dayOfYear > 13 * 28

\* a difference of time values in milliseconds
Milliseconds(x) == x.d * MILLISECONDS_PER_DAY + x.ms

\* the time counted from UTC midnight
TimeOfUtcDay(unixTime, nadir) == unixTime.ms

\* n degrees of natural time, in the unit of the time field
DegreesOfTime(n) == n * (MILLISECONDS_PER_DAY \div 360)

\* this.time = (this.unixTime - this.nadir) * 360 / MILLISECONDS_PER_DAY
TimeOf(unixTime, nadir) == Milliseconds(Minus(unixTime, nadir))

\* the fields, once the year context is resolved (lines 180-208)
Fields(unixTime, longitude, yearContext) ==
    LET yearStart    == yearContext.start
        yearDuration == yearContext.duration
        since   == Minus(unixTime, yearStart)
        days    == FloorDays(since)
        epoch   == Plus(END_OF_ARTIFICIAL_TIME, (LongitudeShift(longitude) + 1) \div 2)
        nadir   == PlusDays(yearStart, days)
    IN  [constructed  |-> TRUE,
         unixTime     |-> unixTime,
         longitude    |-> longitude,
         yearStart    |-> yearStart,
         yearDuration |-> yearDuration,
         year         |-> getUTCFullYear(yearStart)
                            - getUTCFullYear(END_OF_ARTIFICIAL_TIME) + 1,
         moon         |-> (since.d \div 28) + 1,
         week         |-> (since.d \div 7) + 1,
         weekOfMoon   |-> JsRem(since.d \div 7, 4) + 1,
         day          |-> Minus(unixTime, epoch).d,
         dayOfYear    |-> days + 1,
         dayOfMoon    |-> JsRem(days, 28) + 1,
         dayOfWeek    |-> JsRem(days, 7) + 1,
         nadir        |-> nadir,
         time         |-> TimeOf(unixTime, nadir),
         isRainbowDay |-> IsRainbowDay(days + 1)]

\* what a calculateYearContext call returned, with its arguments
Returned(artificialYear, longitude, r) ==
    [called    |-> TRUE,
     year      |-> artificialYear,
     longitude |-> longitude,
     hit       |-> r.hit,
     start     |-> r.context.start,
     duration  |-> r.context.duration]

\* the year context after the correction step (lines 174-178)
Resolve(unixTime, longitude, gYear, first) ==
    IF NeedsCorrection(unixTime, first.context)
    THEN Only({ [r |-> second, year |-> gYear]
                : second \in {calculateYearContext(first.cache, gYear, longitude)} })
    ELSE [r |-> first, year |-> gYear - 1]

\* new NaturalDate(date, longitude) for a Date (or non-zero timestamp) and a
\* longitude in [-180, 180]: the new object, the cache after the call, and
\* what the last calculateYearContext call returned
NaturalDate(cache, unixTime, longitude) ==
    Only({ Only({ Only({
        [date    |-> Fields(unixTime, longitude, last.r.context),
         cache   |-> last.r.cache,
         context |-> Returned(last.year, longitude, last.r)]
        : last  \in {Resolve(unixTime, longitude, gYear, first)} })
        : first \in {calculateYearContext(cache, gYear - 1, longitude)} })
        : gYear \in {getUTCFullYear(unixTime)} })

----------------------------------------------------------------------------
(* State machine *)

\* An argument that may be anything is a record: a finite number (an instant
\* as a time value, a latitude in whole degrees, a longitude in units of
\* 1/LonScale degree), NaN, a string, or undefined.
Number(n) == [type |-> "number", value |-> n]

NaN == [type |-> "NaN"]

Undefined == [type |-> "undefined"]

String(chars) == [type |-> "string", value |-> chars]

NoCall == [called |-> FALSE]

NoDate == [constructed |-> FALSE]

NoContext == [called |-> FALSE]

NoEvent == [asked |-> FALSE]

NoSun == [called |-> FALSE]

NoMoon == [called |-> FALSE]

NoRange == [called |-> FALSE]

InitCelestial ==
    /\ event = NoEvent
    /\ astroCache = <<>>
    /\ sun = NoSun
    /\ moon = NoMoon
    /\ sky = 0
    /\ range = NoRange
    /\ utcOffset = 0
    /\ callers = <<>>
    /\ thrown = ""

Init ==
    /\ dec_solstice = Almanac
    /\ yearContextCache = <<>>
    /\ given = NoCall
    /\ date = NoDate
    /\ context = NoContext
    /\ InitCelestial

\* the instants Date.now() returns
Nows == {DateUTC(2013, 5, 22, 12, 0, 0), DateUTC(2013, 5, 23, 12, 0, 0)}

\* typeof value === 'number'
IsNumberType(value) == value.type \in {"number", "NaN"}

\* the first test of the constructor, with no exception for undefined
LongitudeRefusedEvenAbsent(longitude) ==
    \/ ~IsNumberType(longitude)
    \/ longitude.type = "number"
           /\ (longitude.value < Degrees(-180) \/ longitude.value > Degrees(180))

\* longitude !== undefined && (typeof longitude !== 'number'
\*     || longitude < -180 || longitude > 180): no comparison with NaN is true
LongitudeRefused(longitude) ==
    /\ longitude # Undefined
    /\ \/ ~IsNumberType(longitude)
       \/ longitude.type = "number"
              /\ (longitude.value < Degrees(-180) \/ longitude.value > Degrees(180))

\* longitude || 0
LongitudeOrZero(longitude) ==
    IF longitude.type = "number" THEN longitude.value ELSE 0

\* the left operand of date || Date.now() is falsy: undefined, NaN, 0 or ""
IsFalsy(dateArg) ==
    \/ dateArg.type \in {"undefined", "NaN"}
    \/ dateArg.type = "number" /\ dateArg.value = Instant(0, 0)
    \/ dateArg.type = "string" /\ dateArg.value = ""

\* the time values a Date holds: 100,000,000 days on each side of the epoch
MaxDays == 100 * 1000 * 1000

\* new Date(value).getTime() of a truthy value: the strings of the model are
\* the ones Date cannot parse
getTime(value) ==
    IF /\ value.type = "number"
       /\ NotAfter(Instant(-MaxDays, 0), value.value)
       /\ NotAfter(value.value, Instant(MaxDays, 0))
    THEN value
    ELSE NaN

\* what is known of a calculateYearContext call that threw
Threw(artificialYear, longitude) ==
    [called |-> TRUE, year |-> artificialYear, longitude |-> longitude,
     threw |-> TRUE]

\* the error of calculateYearContext leaves the constructor: nothing catches
\* it between lines 173 and 177
Propagate(dateArg, longitudeArg, cache, artificialYear) ==
    /\ given' = [called |-> TRUE, date |-> dateArg,
                 longitude |-> longitudeArg, returned |-> FALSE]
    /\ yearContextCache' =
           CacheOnThrow(cache, artificialYear, LongitudeOrZero(longitudeArg))
    /\ context' = Threw(artificialYear, LongitudeOrZero(longitudeArg))
    /\ thrown' = "Seasons"
    /\ UNCHANGED <<dec_solstice, date, celestial>>

\* the constructor past its two tests
Build(dateArg, longitudeArg, unixTime) ==
    IF ContextThrows(yearContextCache, getUTCFullYear(unixTime) - 1,
                     LongitudeOrZero(longitudeArg))
    THEN Propagate(dateArg, longitudeArg, yearContextCache,
                   getUTCFullYear(unixTime) - 1)
    ELSE IF /\ ContextThrows(yearContextCache, getUTCFullYear(unixTime),
                             LongitudeOrZero(longitudeArg))
            /\ NeedsCorrection(unixTime,
                   calculateYearContext(yearContextCache,
                                        getUTCFullYear(unixTime) - 1,
                                        LongitudeOrZero(longitudeArg)).context)
    THEN Propagate(dateArg, longitudeArg,
                   calculateYearContext(yearContextCache,
                                        getUTCFullYear(unixTime) - 1,
                                        LongitudeOrZero(longitudeArg)).cache,
                   getUTCFullYear(unixTime))
    ELSE
    \E r \in {NaturalDate(yearContextCache, unixTime,
                          LongitudeOrZero(longitudeArg))} :
        /\ given' = [called |-> TRUE, date |-> dateArg,
                     longitude |-> longitudeArg, returned |-> TRUE]
        /\ date' = r.date
        /\ yearContextCache' = r.cache
        /\ context' = r.context
        /\ thrown' = ""
        /\ UNCHANGED <<dec_solstice, celestial>>

\* the constructor throws
Refuse(dateArg, longitudeArg, message) ==
    /\ given' = [called |-> TRUE, date |-> dateArg,
                 longitude |-> longitudeArg, returned |-> FALSE]
    /\ thrown' = message
    /\ UNCHANGED <<dec_solstice, yearContextCache, date, context, celestial>>

\* new NaturalDate(date, longitude) for any two arguments
New(dateArg, longitudeArg) ==
    IF LongitudeRefused(longitudeArg)
    THEN Refuse(dateArg, longitudeArg, "Longitude must be between -180 and +180")
    ELSE IF IsFalsy(dateArg)
    THEN \E now \in Nows : Build(dateArg, longitudeArg, now)
    ELSE IF getTime(dateArg) = NaN
    THEN Refuse(dateArg, longitudeArg, "Invalid date provided")
    ELSE Build(dateArg, longitudeArg, getTime(dateArg).value)

\* new NaturalDate(unixTime, longitude)
Construct(unixTime, longitude) == New(Number(unixTime), Number(longitude))

\* one call of calculateYearContext on its own
resolveYearContext(artificialYear, longitude) ==
    IF ContextThrows(yearContextCache, artificialYear, longitude)
    THEN /\ context' = Threw(artificialYear, longitude)
         /\ yearContextCache' =
                CacheOnThrow(yearContextCache, artificialYear, longitude)
         /\ thrown' = "Seasons"
         /\ UNCHANGED <<given, date, dec_solstice, celestial>>
    ELSE
    \E r \in {calculateYearContext(yearContextCache, artificialYear, longitude)} :
        /\ context' = Returned(artificialYear, longitude, r)
        /\ yearContextCache' = r.cache
        /\ thrown' = ""
        /\ UNCHANGED <<given, date, dec_solstice, celestial>>

----------------------------------------------------------------------------
(* Inputs *)

NoonMs == 12 * 3600000

Longitudes == {Degrees(-180), Degrees(-90), 0, 1, Degrees(90), Degrees(180)}

SampleYears == {1969, 1970, 2012, 2013}

\* the years sampled at their civil ends as well
CivilEndYears == {2012, 2013}

SampleDays ==
    UNION { {MakeDay(y, 5, 21)} \cup {MakeDay(y, 11, dt) : dt \in 20..23}
            : y \in SampleYears }
    \cup UNION { {MakeDay(y, 0, 1), MakeDay(y, 11, 31)} : y \in CivilEndYears }

\* UTC time of day of local midnight at a longitude
LocalMidnightMs(longitude) ==
    (NoonMs + (LongitudeShift(longitude) \div 2)) % MILLISECONDS_PER_DAY

\* new Date(9): nine milliseconds after the Unix epoch, at Greenwich
EpochInstants(longitude) == IF longitude = 0 THEN {Instant(0, 9)} ELSE {}

\* around local midnight and at UTC noon, on each sampled day
InstantsAt(longitude) ==
    { Instant(d, LocalMidnightMs(longitude) + k) :
          d \in SampleDays, k \in (-MsWindow)..MsWindow }
    \cup { Instant(d, NoonMs) : d \in SampleDays }
    \cup EpochInstants(longitude)

MainLongitudes == {Degrees(-180), 0, 1, Degrees(180)}

MainYears == {2012, 2013}

MainInstants == {DateUTC(2013, 5, 21, 12, 0, 0), DateUTC(2013, 11, 23, 12, 0, 0)}

Next ==
    \/ \E longitude \in MainLongitudes : \E unixTime \in MainInstants :
           Construct(unixTime, longitude)
    \/ \E longitude \in MainLongitudes : \E artificialYear \in MainYears :
           resolveYearContext(artificialYear, longitude)

Spec == Init /\ [][Next]_vars

\* the constructor as a function of its arguments: one call in a new process
NextDate ==
    \E longitude \in Longitudes : \E unixTime \in InstantsAt(longitude) :
        /\ ~date.constructed
        /\ Construct(unixTime, longitude)

SpecDate == Init /\ [][NextDate]_vars

----------------------------------------------------------------------------
(* The year context on its own *)

\* calculateYearContext against any solstice the oracle may give: the year's
\* solstice and the next one, each on 30 November, 21 December or
\* 31 December, just before noon, at noon or just before midnight
OracleInstants(y) ==
    { DateUTC(y, md[1], md[2], hm[1], hm[2], 0) :
          md \in {<<10, 30>>, <<11, 21>>, <<11, 31>>},
          hm \in {<<11, 59>>, <<12, 0>>, <<23, 59>>} }

\* one year before the Unix epoch, where time values are negative, and one
\* after it
OracleYears == {1969, 2012}

Oracles ==
    UNION { { (y :> a) @@ (y + 1 :> b) :
                  a \in OracleInstants(y), b \in OracleInstants(y + 1) }
            : y \in OracleYears }

InitCtx ==
    /\ dec_solstice \in Oracles
    /\ yearContextCache = <<>>
    /\ given = NoCall
    /\ date = NoDate
    /\ context = NoContext
    /\ InitCelestial

NextCtx ==
    \E longitude \in MainLongitudes :
        \E artificialYear \in DOMAIN dec_solstice \cap OracleYears :
            resolveYearContext(artificialYear, longitude)

SpecCtx == InitCtx /\ [][NextCtx]_vars

----------------------------------------------------------------------------
(* getTimeOfEvent *)

\* the range test with the day's end left out
getTimeOfEventHalfOpen(d, eventTime) ==
    IF Before(eventTime, d.nadir) \/ NotAfter(PlusDays(d.nadir, 1), eventTime)
    THEN [found |-> FALSE]
    ELSE [found |-> TRUE, degrees |-> Milliseconds(Minus(eventTime, d.nadir))]

\* d.getTimeOfEvent(event) for an event that is a valid instant: false
\* (found |-> FALSE) out of range, else the degrees, in the unit of the time
\* field
getTimeOfEvent(d, eventTime) ==
    IF Before(eventTime, d.nadir) \/ Before(PlusDays(d.nadir, 1), eventTime)
    THEN [found |-> FALSE]
    ELSE [found |-> TRUE, degrees |-> Milliseconds(Minus(eventTime, d.nadir))]

\* date.getTimeOfEvent(eventTime) on the date last constructed
TimeOfEvent(eventTime) ==
    /\ date.constructed
    /\ event' = [asked  |-> TRUE,
                 at     |-> eventTime,
                 result |-> getTimeOfEvent(date, eventTime)]
    /\ thrown' = ""
    /\ UNCHANGED <<dec_solstice, yearContextCache, given, date, context,
                   astroCache, sun, moon, sky, range, utcOffset, callers>>

\* events around the start and the end of a date's natural day, in its
\* middle, and a day away on either side
EventInstants(d) ==
    { Plus(PlusDays(d.nadir, n), k) : n \in {0, 1}, k \in (-MsWindow)..MsWindow }
    \cup {Plus(d.nadir, NoonMs), PlusDays(d.nadir, -1), PlusDays(d.nadir, 2)}

NextEvent ==
    \/ \E longitude \in Longitudes : \E unixTime \in InstantsAt(longitude) :
           /\ ~date.constructed
           /\ Construct(unixTime, longitude)
    \/ /\ date.constructed
       /\ \E eventTime \in EventInstants(date) : TimeOfEvent(eventTime)

SpecEvent == Init /\ [][NextEvent]_vars

----------------------------------------------------------------------------
(* Validators (src/src/utils/validators.js) *)

\* typeof value === 'number' && Number.isFinite(value) && !Number.isNaN(value)
isValidNumber(value) == value.type = "number"

isValidLatitude(latitude) ==
    isValidNumber(latitude) /\ latitude.value >= -90 /\ latitude.value <= 90

\* isValidLongitude of the longitude field of a NaturalDate
isValidLongitude(longitude) ==
    longitude >= Degrees(-180) /\ longitude <= Degrees(180)

\* isValidTimestamp of a time value: a number > 0
isValidTimestamp(t) == t.d > 0 \/ (t.d = 0 /\ t.ms > 0)

\* isValidAngle of a natural time
isValidAngle(time) == time >= 0 /\ time <= DegreesOfTime(360)

\* isValidNaturalDate: an instance of NaturalDate whose fields pass the checks
isValidNaturalDate(d) ==
    /\ d.constructed
    /\ isValidTimestamp(d.unixTime)
    /\ isValidLongitude(d.longitude)
    /\ d.moon >= 1 /\ d.moon <= 14
    /\ d.week >= 1 /\ d.week <= 53
    /\ d.weekOfMoon >= 1 /\ d.weekOfMoon <= 4
    /\ d.dayOfMoon >= 1 /\ d.dayOfMoon <= 28
    /\ d.dayOfWeek >= 1 /\ d.dayOfWeek <= 7
    /\ d.dayOfYear >= 1 /\ d.dayOfYear <= d.yearDuration
    /\ isValidAngle(d.time)
    /\ isValidTimestamp(d.yearStart)
    /\ isValidTimestamp(d.nadir)

----------------------------------------------------------------------------
(* The search oracle.  SearchRiseSet and SearchAltitude of astronomy-engine *)
(* are functions of the observer, the start instant and the event; each     *)
(* gives an instant at most limitDays after the start, or null.  Which      *)
(* function it is, is left open: the sky seen from a place on a day is one  *)
(* of Skies, picked by the place, the day and the variable sky.             *)

Found(t) == [found |-> TRUE, date |-> t]

NotFound == [found |-> FALSE]

HourMs == 60 * 60 * 1000

\* offsets of the six events from the start of the search, in ms (-1: null)
Skies ==
    << \* a temperate day
       [sunrise |-> 6 * HourMs, sunset |-> 18 * HourMs,
        nightStart |-> 19 * HourMs, nightEnd |-> 5 * HourMs,
        morningGoldenHour |-> 7 * HourMs, eveningGoldenHour |-> 17 * HourMs],
       \* polar day or polar night: nothing is found
       [sunrise |-> -1, sunset |-> -1, nightStart |-> -1, nightEnd |-> -1,
        morningGoldenHour |-> -1, eveningGoldenHour |-> -1],
       \* the last white night: the sun next crosses -12 degrees on the day
       \* after, inside the two days the altitude searches cover
       [sunrise |-> 3 * HourMs, sunset |-> 21 * HourMs,
        nightStart |-> 47 * HourMs, nightEnd |-> 25 * HourMs,
        morningGoldenHour |-> 4 * HourMs, eveningGoldenHour |-> 20 * HourMs],
       \* events on the very ends of the day and of the search
       [sunrise |-> 0, sunset |-> 24 * HourMs,
        nightStart |-> 24 * HourMs + 1, nightEnd |-> -1,
        morningGoldenHour |-> 0, eveningGoldenHour |-> 48 * HourMs] >>

\* the sky over the observer from dateStart on
SkyAt(latitude, longitude, dateStart) ==
    Skies[((sky + latitude + (longitude \div LonScale) + dateStart.d)
               % Len(Skies)) + 1]

\* SearchRiseSet(Body.Sun, observer, direction, dateStart, 1) and
\* SearchAltitude(Body.Sun, observer, direction, dateStart, 2, altitude)
Search(kind, latitude, longitude, dateStart) ==
    LET offset == SkyAt(latitude, longitude, dateStart)[kind]
    IN  IF offset < 0 THEN NotFound ELSE Found(Plus(dateStart, offset))

----------------------------------------------------------------------------
(* NaturalSunEvents (src/src/astronomy/celestial.ts) *)

\* isSummerSeason(dayOfYear, latitude), the hemisphere by the latitude's sign
isSummerSeason(dayOfYear, latitude) ==
    IF latitude >= 0
    THEN dayOfYear >= 91 /\ dayOfYear <= 273
    ELSE dayOfYear <= 91 \/ dayOfYear >= 273

\* naturalDate.toDateString(): year, moon and day of moon, or the rainbow day
toDateString(d) ==
    IF d.isRainbowDay
    THEN <<d.year, "RAINBOW", IF d.dayOfYear = 366 THEN "+" ELSE "">>
    ELSE <<d.year, "MOON", <<d.moon, d.dayOfMoon>> >>

\* a key without the latitude
SunCacheKeyNoLatitude(d, latitude) == <<"SUN", toDateString(d), 0, d.longitude>>

\* `SUN_${naturalDate.toDateString()}_${latitude}_${naturalDate.longitude}`
SunCacheKey(d, latitude) == <<"SUN", toDateString(d), latitude, d.longitude>>

\* the event time without the range check of getTimeOfEvent
getEventTimeUnchecked(d, isSummer, searchResult, isSummerDefault) ==
    IF ~searchResult.found
    THEN IF isSummer
         THEN (IF isSummerDefault THEN DegreesOfTime(360) ELSE 0)
         ELSE DegreesOfTime(180)
    ELSE Milliseconds(Minus(searchResult.date, d.nadir))

\* getEventTime: the fallback when the search gave null, else
\* naturalDate.getTimeOfEvent(searchResult.date) || 0
getEventTime(d, isSummer, searchResult, isSummerDefault) ==
    IF ~searchResult.found
    THEN IF isSummer
         THEN (IF isSummerDefault THEN DegreesOfTime(360) ELSE 0)
         ELSE DegreesOfTime(180)
    ELSE IF getTimeOfEvent(d, searchResult.date).found
         THEN getTimeOfEvent(d, searchResult.date).degrees
         ELSE 0

\* the events computed on a cache miss (lines 175-194)
SunEvents(d, latitude) ==
    LET isSummer == isSummerSeason(d.dayOfYear, latitude)
        found(kind) == Search(kind, latitude, d.longitude, d.nadir)
    IN  [sunrise    |-> getEventTime(d, isSummer, found("sunrise"), FALSE),
         sunset     |-> getEventTime(d, isSummer, found("sunset"), TRUE),
         nightStart |-> getEventTime(d, isSummer, found("nightStart"), TRUE),
         nightEnd   |-> getEventTime(d, isSummer, found("nightEnd"), FALSE),
         morningGoldenHour |->
             getEventTime(d, isSummer, found("morningGoldenHour"), FALSE),
         eveningGoldenHour |->
             getEventTime(d, isSummer, found("eveningGoldenHour"), TRUE)]

\* NaturalSunEvents past its validation: the cached set on a hit, else the
\* computed one, stored; searches counts the calls of the oracle
NaturalSunEvents(cache, d, latitude) ==
    \* cachedResult && 'sunrise' in cachedResult
    IF SunCacheKey(d, latitude) \in DOMAIN cache
       /\ "sunrise" \in DOMAIN cache[SunCacheKey(d, latitude)]
    THEN [events |-> cache[SunCacheKey(d, latitude)], cache |-> cache,
          hit |-> TRUE, searches |-> 0]
    ELSE Only({ [events |-> events,
                 cache |-> (SunCacheKey(d, latitude) :> events) @@ cache,
                 hit |-> FALSE, searches |-> 6]
                : events \in {SunEvents(d, latitude)} })

\* NaturalSunEvents(date, latitude) on the date last constructed (or, before
\* any, on a value that is no NaturalDate), for any latitude argument
sunEvents(latitude) ==
    IF ~isValidNaturalDate(date)
    THEN /\ thrown' = "Invalid naturalDate"
         /\ sun' = [called |-> TRUE, ok |-> FALSE, of |-> date,
                    latitude |-> latitude, searches |-> 0]
         /\ UNCHANGED <<dec_solstice, yearContextCache, given, date, context,
                        event, astroCache, moon, sky, range, utcOffset, callers>>
    ELSE IF ~isValidLatitude(latitude)
    THEN /\ thrown' = "Invalid latitude"
         /\ sun' = [called |-> TRUE, ok |-> FALSE, of |-> date,
                    latitude |-> latitude, searches |-> 0]
         /\ UNCHANGED <<dec_solstice, yearContextCache, given, date, context,
                        event, astroCache, moon, sky, range, utcOffset, callers>>
    ELSE \E r \in {NaturalSunEvents(astroCache, date, latitude.value)} :
         /\ thrown' = ""
         /\ sun' = [called |-> TRUE, ok |-> TRUE, of |-> date,
                    latitude |-> latitude, searches |-> r.searches,
                    hit |-> r.hit, events |-> r.events]
         /\ astroCache' = r.cache
         /\ UNCHANGED <<dec_solstice, yearContextCache, given, date, context,
                        event, moon, sky, range, utcOffset, callers>>

\* two instants of one natural day at Greenwich, one of the next day, and
\* the first of them seen from 90 degrees east
SunDates ==
    { <<DateUTC(2013, 5, 21, 12, 0, 0), 0>>,
      <<DateUTC(2013, 5, 21, 18, 0, 0), 0>>,
      <<DateUTC(2013, 5, 22, 12, 0, 0), 0>>,
      <<DateUTC(2013, 5, 21, 12, 0, 0), Degrees(90)>> }

SunLatitudes == {Number(60), Number(-45), Number(91), NaN}

InitSun ==
    /\ dec_solstice = Almanac
    /\ yearContextCache = <<>>
    /\ given = NoCall
    /\ date = NoDate
    /\ context = NoContext
    /\ event = NoEvent
    /\ astroCache = <<>>
    /\ sun = NoSun
    /\ moon = NoMoon
    /\ sky \in 0..(Len(Skies) - 1)
    /\ range = NoRange
    /\ utcOffset = 0
    /\ callers = <<>>
    /\ thrown = ""

NextSun ==
    \/ \E input \in SunDates : Construct(input[1], input[2])
    \/ \E latitude \in SunLatitudes : sunEvents(latitude)

SpecSun == InitSun /\ [][NextSun]_vars

----------------------------------------------------------------------------
(* MustachesRange (src/src/astronomy/celestial.ts) *)

\* Seasons(year).jun_solstice.date, to the minute
jun_solstice ==
    (2012 :> DateUTC(2012, 5, 20, 23, 9, 0)) @@
    (2013 :> DateUTC(2013, 5, 21, 5, 4, 0))

\* new Date(unixTime).getFullYear(): the year in the time zone of the process
getFullYear(t) == getUTCFullYear(Plus(t, utcOffset * 60000))

\* `MUSTACHES_${currentYear}_${latitude}`
MustachesCacheKey(currentYear, latitude) == <<"MUSTACHES", currentYear, latitude>>

\* the result of the catch branch
ZeroRange ==
    [winterSunrise |-> 0, winterSunset |-> 0, summerSunrise |-> 0,
     summerSunset |-> 0, averageMustacheAngle |-> 0]

Min(a, b) == IF a <= b THEN a ELSE b

Max(a, b) == IF a >= b THEN a ELSE b

\* the result built from the events of the two solstice days; the average
\* angle is kept in quarters of the unit of the time field (the sum of line
\* 309 before its division by 4), clamped to [0, 90] degrees
RangeOf(winter, summer, latitude) ==
    [winterSunrise |-> winter.sunrise,
     winterSunset  |-> winter.sunset,
     summerSunrise |-> summer.sunrise,
     summerSunset  |-> summer.sunset,
     averageMustacheAngle |->
         Min(Max(IF latitude >= 0
                 THEN winter.sunrise - summer.sunrise
                          + summer.sunset - winter.sunset
                 ELSE summer.sunrise - winter.sunrise
                          + winter.sunset - summer.sunset,
                 0),
             4 * DegreesOfTime(90))]

\* NaturalSunEvents(new NaturalDate(solstice, 0), latitude) inside the try
\* block: ok is FALSE when the validation of NaturalSunEvents throws
SolsticeSunEvents(astro, years, solstice, latitude) ==
    Only({ IF isValidNaturalDate(built.date)
           THEN Only({ [ok |-> TRUE, events |-> r.events, astro |-> r.cache,
                        years |-> built.cache, context |-> built.context]
                       : r \in {NaturalSunEvents(astro, built.date, latitude)} })
           ELSE [ok |-> FALSE, astro |-> astro,
                 years |-> built.cache, context |-> built.context]
           : built \in {NaturalDate(years, solstice, 0)} })

\* lines 296-325, and the catch branch when a call in them throws
ComputeRange(astro, years, currentYear, latitude) ==
    Only({ IF ~winter.ok
           THEN [result |-> ZeroRange, astro |-> winter.astro,
                 years |-> winter.years, context |-> winter.context]
           ELSE Only({ IF ~summer.ok
                       THEN [result |-> ZeroRange, astro |-> summer.astro,
                             years |-> summer.years, context |-> summer.context]
                       ELSE Only({ [result |-> result,
                                    astro |-> (MustachesCacheKey(currentYear, latitude)
                                                   :> result) @@ summer.astro,
                                    years |-> summer.years,
                                    context |-> summer.context]
                                   : result \in {RangeOf(winter.events,
                                                         summer.events, latitude)} })
                       : summer \in {SolsticeSunEvents(winter.astro, winter.years,
                                                       jun_solstice[currentYear],
                                                       latitude)} })
           : winter \in {SolsticeSunEvents(astro, years,
                                           dec_solstice[currentYear], latitude)} })

\* MustachesRange past its validation, for the year of the date
MustachesRangeOfYear(astro, years, currentYear, latitude) ==
    \* cachedResult && 'winterSunrise' in cachedResult
    IF MustachesCacheKey(currentYear, latitude) \in DOMAIN astro
       /\ "winterSunrise" \in DOMAIN astro[MustachesCacheKey(currentYear, latitude)]
    THEN [result |-> astro[MustachesCacheKey(currentYear, latitude)],
          astro |-> astro, years |-> years, context |-> context, hit |-> TRUE]
    ELSE Only({ [result |-> r.result, astro |-> r.astro, years |-> r.years,
                 context |-> r.context, hit |-> FALSE]
                : r \in {ComputeRange(astro, years, currentYear, latitude)} })

\* MustachesRange(date, latitude) on the date last constructed
mustachesRange(latitude) ==
    IF ~isValidNaturalDate(date)
    THEN /\ thrown' = "Invalid naturalDate"
         /\ range' = [called |-> TRUE, ok |-> FALSE, of |-> date,
                      latitude |-> latitude]
         /\ UNCHANGED <<dec_solstice, yearContextCache, given, date, context,
                        event, astroCache, sun, moon, sky, utcOffset, callers>>
    ELSE IF ~isValidLatitude(latitude)
    THEN /\ thrown' = "Invalid latitude"
         /\ range' = [called |-> TRUE, ok |-> FALSE, of |-> date,
                      latitude |-> latitude]
         /\ UNCHANGED <<dec_solstice, yearContextCache, given, date, context,
                        event, astroCache, sun, moon, sky, utcOffset, callers>>
    ELSE \E r \in {MustachesRangeOfYear(astroCache, yearContextCache,
                                        getFullYear(date.unixTime),
                                        latitude.value)} :
         /\ thrown' = ""
         /\ range' = [called |-> TRUE, ok |-> TRUE, of |-> date,
                      latitude |-> latitude, hit |-> r.hit,
                      result |-> r.result]
         /\ astroCache' = r.astro
         /\ yearContextCache' = r.years
         /\ context' = r.context
         /\ UNCHANGED <<dec_solstice, given, date, event, sun, moon, sky,
                        utcOffset, callers>>

\* dates of the Gregorian year 2013 in two natural years and at two
\* longitudes, one of them on the natural day of the June solstice at
\* Greenwich, and the first half hour of 2013 in UTC
MustachesDates ==
    { <<DateUTC(2013, 5, 21, 12, 0, 0), 0>>,
      <<DateUTC(2013, 11, 25, 12, 0, 0), Degrees(90)>>,
      <<DateUTC(2013, 0, 1, 0, 30, 0), 0>> }

MustachesLatitudes == {Number(60), Number(-45), NaN}

InitMustaches ==
    /\ dec_solstice = Almanac
    /\ yearContextCache = <<>>
    /\ given = NoCall
    /\ date = NoDate
    /\ context = NoContext
    /\ event = NoEvent
    /\ astroCache = <<>>
    /\ sun = NoSun
    /\ moon = NoMoon
    /\ sky = 0
    /\ range = NoRange
    /\ utcOffset \in {0, -60}
    /\ callers = <<>>
    /\ thrown = ""

NextMustaches ==
    \/ \E input \in MustachesDates : Construct(input[1], input[2])
    \/ \E latitude \in MustachesLatitudes : mustachesRange(latitude)
    \/ sunEvents(Number(60))

SpecMustaches == InitMustaches /\ [][NextMustaches]_vars

----------------------------------------------------------------------------
(* The constructor on arguments of any kind *)

\* a date of 2013, the epoch itself, a date before it, the first instant
\* past the range of Date, and what is not an instant
DateArgs ==
    { Number(DateUTC(2013, 5, 21, 12, 0, 0)),
      Number(Instant(0, 0)),
      Number(DateUTC(1969, 5, 21, 12, 0, 0)),
      Number(Instant(MaxDays, 1)),
      NaN, Undefined, String(""), String("not a date") }

\* the ends of the range, the first longitudes past them, and what is not a
\* longitude
LongitudeArgs ==
    { Number(0), Number(Degrees(-180)), Number(Degrees(180)),
      Number(Degrees(-180) - 1), Number(Degrees(180) + 1),
      NaN, Undefined, String("0") }

InitNew ==
    /\ dec_solstice = Almanac
    /\ yearContextCache = <<>>
    /\ given = NoCall
    /\ date = NoDate
    /\ context = NoContext
    /\ InitCelestial

\* constructor calls, while the year-context cache holds few entries
NextNew ==
    /\ Cardinality(DOMAIN yearContextCache) < MaxCached
    /\ \E dateArg \in DateArgs, longitudeArg \in LongitudeArgs :
           New(dateArg, longitudeArg)

SpecNew == InitNew /\ [][NextNew]_vars

----------------------------------------------------------------------------
(* NaturalMoonPosition and NaturalMoonEvents (src/src/astronomy/celestial.ts) *)

\* what astronomy-engine computes for the moon: the offsets of moonrise and
\* moonset from the start of the search, in ms (-1: null), the altitude at
\* the meridian, the altitude and the phase at an instant, in degrees, and
\* whether its calls throw
MoonSkies ==
    << \* the moon rises and sets during the day
       [moonrise |-> 2 * HourMs, moonset |-> 14 * HourMs,
        highestAltitude |-> 40, altitude |-> 25, phase |-> 90, throws |-> FALSE],
       \* no moonrise within a day of the start
       [moonrise |-> -1, moonset |-> HourMs,
        highestAltitude |-> 10, altitude |-> -5, phase |-> 180, throws |-> FALSE],
       \* moonrise at the very start, no moonset
       [moonrise |-> 0, moonset |-> -1,
        highestAltitude |-> 55, altitude |-> 0, phase |-> 0, throws |-> FALSE],
       \* the oracle throws
       [moonrise |-> -1, moonset |-> -1,
        highestAltitude |-> 0, altitude |-> 0, phase |-> 0, throws |-> TRUE] >>

\* the moon over the observer from dateStart on
MoonSkyAt(latitude, longitude, dateStart) ==
    MoonSkies[((sky + latitude + (longitude \div LonScale) + dateStart.d)
                   % Len(MoonSkies)) + 1]

\* SearchRiseSet(Body.Moon, observer, direction, dateStart, 1)
SearchMoon(kind, latitude, longitude, dateStart) ==
    LET offset == MoonSkyAt(latitude, longitude, dateStart)[kind]
    IN  IF offset < 0 THEN NotFound ELSE Found(Plus(dateStart, offset))

\* Math.cos(phase * Math.PI / 180) in thousandths, for the quarter phases
Cos(phase) ==
    IF phase = 0 THEN 1000 ELSE IF phase = 180 THEN -1000 ELSE 0

\* the result of the catch branch of src/src/astronomy/celestial.js
ZeroPosition == [altitude |-> 0, phase |-> 0, illumination |-> 0]

\* lines 217-225: the position the oracle gives, the altitude not below 0
MoonPosition(d, latitude) ==
    Only({ [altitude     |-> Max(m.altitude, 0),
            phase        |-> m.phase,
            illumination |-> Cos(m.phase)]
           : m \in {MoonSkyAt(latitude, d.longitude, d.unixTime)} })

\* NaturalMoonPosition(date, latitude) on the date last constructed
moonPosition(latitude) ==
    IF ~isValidNaturalDate(date) \/ ~isValidLatitude(latitude)
    THEN /\ thrown' = (IF ~isValidNaturalDate(date)
                       THEN "Invalid naturalDate" ELSE "Invalid latitude")
         /\ moon' = [called |-> TRUE, op |-> "NaturalMoonPosition",
                     valid |-> FALSE, ok |-> FALSE, of |-> date,
                     latitude |-> latitude]
         /\ UNCHANGED <<dec_solstice, yearContextCache, given, date, context,
                        event, astroCache, sun, sky, range, utcOffset, callers>>
    ELSE IF MoonSkyAt(latitude.value, date.longitude, date.unixTime).throws
    \* catch (error) { console.error(...); throw error; }
    THEN /\ thrown' = "astronomy-engine"
         /\ moon' = [called |-> TRUE, op |-> "NaturalMoonPosition",
                     valid |-> TRUE, ok |-> FALSE, of |-> date,
                     latitude |-> latitude]
         /\ UNCHANGED <<dec_solstice, yearContextCache, given, date, context,
                        event, astroCache, sun, sky, range, utcOffset, callers>>
    ELSE /\ thrown' = ""
         /\ moon' = [called |-> TRUE, op |-> "NaturalMoonPosition",
                     valid |-> TRUE, ok |-> TRUE, of |-> date,
                     latitude |-> latitude,
                     result |-> MoonPosition(date, latitude.value)]
         /\ UNCHANGED <<dec_solstice, yearContextCache, given, date, context,
                        event, astroCache, sun, sky, range, utcOffset, callers>>

\* `MOON_${naturalDate.toDateString()}_${latitude}_${naturalDate.longitude}`
MoonCacheKey(d, latitude) == <<"MOON", toDateString(d), latitude, d.longitude>>

\* the value that tells an absent event from one at 0 degrees
False == [type |-> "boolean", value |-> FALSE]

\* the helper as the documentation has it: the result of getTimeOfEvent,
\* false when the event is not of this natural day
getMoonEventTimeOrFalse(d, searchResult) ==
    IF searchResult.found /\ getTimeOfEvent(d, searchResult.date).found
    THEN Number(getTimeOfEvent(d, searchResult.date).degrees)
    ELSE False

\* getEventTime of NaturalMoonEvents: 0 when the search gave null, else
\* naturalDate.getTimeOfEvent(searchResult.date) || 0
getMoonEventTime(d, searchResult) ==
    IF ~searchResult.found
    THEN Number(0)
    ELSE IF getTimeOfEvent(d, searchResult.date).found
         THEN Number(getTimeOfEvent(d, searchResult.date).degrees)
         ELSE Number(0)

\* the events computed on a cache miss (lines 259-263)
MoonEvents(d, latitude) ==
    [moonrise |-> getMoonEventTime(d, SearchMoon("moonrise", latitude,
                                                 d.longitude, d.nadir)),
     moonset  |-> getMoonEventTime(d, SearchMoon("moonset", latitude,
                                                 d.longitude, d.nadir)),
     highestAltitude |-> MoonSkyAt(latitude, d.longitude, d.nadir).highestAltitude]

\* NaturalMoonEvents(date, latitude) on the date last constructed
moonEvents(latitude) ==
    IF ~isValidNaturalDate(date) \/ ~isValidLatitude(latitude)
    THEN /\ thrown' = (IF ~isValidNaturalDate(date)
                       THEN "Invalid naturalDate" ELSE "Invalid latitude")
         /\ moon' = [called |-> TRUE, op |-> "NaturalMoonEvents",
                     valid |-> FALSE, ok |-> FALSE, of |-> date,
                     latitude |-> latitude]
         /\ UNCHANGED <<dec_solstice, yearContextCache, given, date, context,
                        event, astroCache, sun, sky, range, utcOffset, callers>>
    \* cachedResult && 'moonrise' in cachedResult
    ELSE IF /\ MoonCacheKey(date, latitude.value) \in DOMAIN astroCache
            /\ "moonrise" \in DOMAIN astroCache[MoonCacheKey(date, latitude.value)]
    THEN /\ thrown' = ""
         /\ moon' = [called |-> TRUE, op |-> "NaturalMoonEvents",
                     valid |-> TRUE, ok |-> TRUE, of |-> date,
                     latitude |-> latitude, hit |-> TRUE,
                     result |-> astroCache[MoonCacheKey(date, latitude.value)]]
         /\ UNCHANGED <<dec_solstice, yearContextCache, given, date, context,
                        event, astroCache, sun, sky, range, utcOffset, callers>>
    ELSE IF MoonSkyAt(latitude.value, date.longitude, date.nadir).throws
    THEN /\ thrown' = "astronomy-engine"
         /\ moon' = [called |-> TRUE, op |-> "NaturalMoonEvents",
                     valid |-> TRUE, ok |-> FALSE, of |-> date,
                     latitude |-> latitude]
         /\ UNCHANGED <<dec_solstice, yearContextCache, given, date, context,
                        event, astroCache, sun, sky, range, utcOffset, callers>>
    ELSE \E events \in {MoonEvents(date, latitude.value)} :
         /\ thrown' = ""
         /\ moon' = [called |-> TRUE, op |-> "NaturalMoonEvents",
                     valid |-> TRUE, ok |-> TRUE, of |-> date,
                     latitude |-> latitude, hit |-> FALSE,
                     result |-> events]
         /\ astroCache' = (MoonCacheKey(date, latitude.value) :> events)
                              @@ astroCache
         /\ UNCHANGED <<dec_solstice, yearContextCache, given, date, context,
                        event, sun, sky, range, utcOffset, callers>>

MoonLatitudes == {Number(60), Number(-45), NaN}

InitMoon ==
    /\ dec_solstice = Almanac
    /\ yearContextCache = <<>>
    /\ given = NoCall
    /\ date = NoDate
    /\ context = NoContext
    /\ event = NoEvent
    /\ astroCache = <<>>
    /\ sun = NoSun
    /\ moon = NoMoon
    /\ sky \in 0..(Len(MoonSkies) - 1)
    /\ range = NoRange
    /\ utcOffset = 0
    /\ callers = <<>>
    /\ thrown = ""

NextMoon ==
    \/ \E input \in SunDates : Construct(input[1], input[2])
    \/ \E latitude \in MoonLatitudes : moonPosition(latitude)
    \/ \E latitude \in MoonLatitudes : moonEvents(latitude)

SpecMoon == InitMoon /\ [][NextMoon]_vars

----------------------------------------------------------------------------
(* Years the oracle cannot compute *)

\* the last year whose solstice the oracle computes
LastYears == {2012, 2013}

\* a date of natural year 1, the second day of natural year 2 and a date of
\* its summer
EraInstants ==
    { DateUTC(2013, 5, 21, 12, 0, 0),
      DateUTC(2013, 11, 23, 12, 0, 0),
      DateUTC(2014, 5, 21, 12, 0, 0) }

EraYears == {2011, 2012, 2013}

EraLongitudes == {0, Degrees(180)}

InitEra ==
    /\ \E last \in LastYears :
           dec_solstice = [y \in {x \in DOMAIN Almanac : x <= last} |-> Almanac[y]]
    /\ yearContextCache = <<>>
    /\ given = NoCall
    /\ date = NoDate
    /\ context = NoContext
    /\ InitCelestial

NextEra ==
    \/ \E longitude \in EraLongitudes : \E unixTime \in EraInstants :
           Construct(unixTime, longitude)
    \/ \E longitude \in EraLongitudes : \E artificialYear \in EraYears :
           resolveYearContext(artificialYear, longitude)

SpecEra == InitEra /\ [][NextEra]_vars

----------------------------------------------------------------------------
(* The season of NaturalSunEvents *)

\* days of the natural year around the two thresholds, and its ends and middle
SeasonDays == {1, 90, 91, 92, 182, 272, 273, 274, 365}

\* noon UTC of those days of natural year 1 at Greenwich, which starts on
\* 2012-12-22 at 00:00 UTC
SeasonInstants ==
    { PlusDays(DateUTC(2012, 11, 22, 12, 0, 0), dayOfYear - 1) :
          dayOfYear \in SeasonDays }

SeasonLatitudes == {Number(60), Number(0), Number(-45)}

\* NaturalSunEvents as a function of its arguments: one date and one call in
\* a new process
NextSeason ==
    \/ /\ ~date.constructed
       /\ \E unixTime \in SeasonInstants : Construct(unixTime, 0)
    \/ /\ ~sun.called
       /\ \E latitude \in SeasonLatitudes : sunEvents(latitude)

SpecSeason == InitSun /\ [][NextSeason]_vars

----------------------------------------------------------------------------
(* Callers at work at the same time on an absent key.  A call of           *)
(* calculateYearContext or of NaturalSunEvents is three steps: the lookup   *)
(* of the key, the computation with the oracle, and the store.              *)

Callers == 1..MaxCallers

\* the NaturalDate the callers of NaturalSunEvents hold
CallersDate == NaturalDate(<<>>, DateUTC(2013, 5, 21, 12, 0, 0), 0).date

\* calculateYearContext(2012, 0), calculateYearContext(2012, 180) and
\* NaturalSunEvents(CallersDate, 60)
Requests ==
    { [op |-> "calculateYearContext", artificialYear |-> 2012, longitude |-> 0],
      [op |-> "calculateYearContext", artificialYear |-> 2012,
       longitude |-> Degrees(180)],
      [op |-> "NaturalSunEvents", latitude |-> 60] }

\* a value that carries the caller that computed it
ComputedPerCaller(caller, request) ==
    IF request.op = "calculateYearContext"
    THEN [start |-> Instant(caller, 0), duration |-> 365]
    ELSE [sunrise |-> caller]

\* lines 44-64 of calculateYearContext, lines 175-194 of NaturalSunEvents
Computed(caller, request) ==
    IF request.op = "calculateYearContext"
    THEN YearContext(request.artificialYear, request.longitude)
    ELSE SunEvents(CallersDate, request.latitude)

\* the cache entry of a request, if any
Cached(request) ==
    IF request.op = "calculateYearContext"
    THEN IF CacheKey(request.artificialYear, request.longitude)
                \in DOMAIN yearContextCache
         THEN {yearContextCache[CacheKey(request.artificialYear,
                                         request.longitude)]}
         ELSE {}
    ELSE IF SunCacheKey(CallersDate, request.latitude) \in DOMAIN astroCache
         THEN {astroCache[SunCacheKey(CallersDate, request.latitude)]}
         ELSE {}

\* a caller enters the operation
Ask(caller, request) ==
    /\ caller \notin DOMAIN callers
    /\ callers' = (caller :> [pc |-> "check", request |-> request]) @@ callers
    /\ UNCHANGED <<dec_solstice, yearContextCache, given, date, context,
                   event, astroCache, sun, moon, sky, range, utcOffset, thrown>>

\* yearContextCache.has(cacheKey) / astroCache.get(cacheKey): on a hit the
\* caller returns the entry
Check(caller) ==
    /\ caller \in DOMAIN callers
    /\ callers[caller].pc = "check"
    /\ callers' =
           [callers EXCEPT ![caller] =
               IF Cached(@.request) = {}
               THEN [pc |-> "compute", request |-> @.request]
               ELSE [pc |-> "done", request |-> @.request, hit |-> TRUE,
                     value |-> Only(Cached(@.request))]]
    /\ UNCHANGED <<dec_solstice, yearContextCache, given, date, context,
                   event, astroCache, sun, moon, sky, range, utcOffset, thrown>>

\* the computation, before anything is stored
Compute(caller) ==
    /\ caller \in DOMAIN callers
    /\ callers[caller].pc = "compute"
    /\ callers' =
           [callers EXCEPT ![caller] =
               [pc |-> "store", request |-> @.request, hit |-> FALSE,
                value |-> Computed(caller, @.request)]]
    /\ UNCHANGED <<dec_solstice, yearContextCache, given, date, context,
                   event, astroCache, sun, moon, sky, range, utcOffset, thrown>>

\* yearContextCache.set(cacheKey, context) / astroCache.set(cacheKey, events),
\* and the return of the value
Store(caller) ==
    /\ caller \in DOMAIN callers
    /\ callers[caller].pc = "store"
    /\ callers' = [callers EXCEPT ![caller].pc = "done"]
    /\ IF callers[caller].request.op = "calculateYearContext"
       THEN /\ yearContextCache' =
                   (CacheKey(callers[caller].request.artificialYear,
                             callers[caller].request.longitude)
                        :> callers[caller].value) @@ yearContextCache
            /\ UNCHANGED astroCache
       ELSE /\ astroCache' =
                   (SunCacheKey(CallersDate, callers[caller].request.latitude)
                        :> callers[caller].value) @@ astroCache
            /\ UNCHANGED yearContextCache
    /\ UNCHANGED <<dec_solstice, given, date, context,
                   event, sun, moon, sky, range, utcOffset, thrown>>

NextCallers ==
    \E caller \in Callers :
        \/ \E request \in Requests : Ask(caller, request)
        \/ Check(caller)
        \/ Compute(caller)
        \/ Store(caller)

SpecCallers == InitSun /\ [][NextCallers]_vars

----------------------------------------------------------------------------
(* The caller writes into a result.  NaturalSunEvents returns the object    *)
(* it has put in astroCache (lines 196-197) or has found there (line 172):  *)
(* the result of the last call and the cache entry are one object.          *)

\* the values a caller writes
WrittenDegrees == {DegreesOfTime(90) + 1}

\* result[kind] = value on the object the last NaturalSunEvents call returned
modifySunEvents(kind, value) ==
    /\ sun.called
    /\ sun.ok
    /\ sun' = [sun EXCEPT !.events[kind] = value]
    /\ astroCache' =
           [astroCache EXCEPT ![SunCacheKey(sun.of, sun.latitude.value)][kind]
                                  = value]
    /\ UNCHANGED <<dec_solstice, yearContextCache, given, date, context,
                   event, moon, sky, range, utcOffset, callers, thrown>>

AliasDates ==
    { <<DateUTC(2013, 5, 21, 12, 0, 0), 0>>,
      <<DateUTC(2013, 5, 22, 12, 0, 0), 0>> }

AliasLatitudes == {Number(60), Number(-45)}

NextAlias ==
    \/ \E input \in AliasDates : Construct(input[1], input[2])
    \/ \E latitude \in AliasLatitudes : sunEvents(latitude)
    \/ \E value \in WrittenDegrees : modifySunEvents("sunrise", value)

SpecAlias == InitSun /\ [][NextAlias]_vars

----------------------------------------------------------------------------
(* Properties *)

\* C1: the time of every constructed NaturalDate lies in [0, 360) degrees,
\* whatever the instant and the longitude.
C1_TimeInRange ==
    date.constructed => 0 <= date.time /\ date.time < DegreesOfTime(360)

\* a date in the last millisecond of its natural day
C1_Witness ==
    date.constructed /\ date.time = DegreesOfTime(360) - 1

\* C2: after construction the resolved natural year contains the instant
\* (yearStart <= unixTime < yearStart + yearDuration days), nadir <= unixTime
\* and 1 <= dayOfYear <= yearDuration.
C2_YearContainsInstant ==
    date.constructed =>
        /\ NotAfter(date.yearStart, date.unixTime)
        /\ Before(date.unixTime, PlusDays(date.yearStart, date.yearDuration))
        /\ NotAfter(date.nadir, date.unixTime)
        /\ 1 <= date.dayOfYear
        /\ date.dayOfYear <= date.yearDuration

\* a date at the very start of its year, resolved by the correction step
C2_Witness ==
    /\ date.constructed
    /\ date.unixTime = date.yearStart
    /\ context.year = getUTCFullYear(date.unixTime)

\* the artificial years whose context the oracle can give
ContextYears ==
    { y \in DOMAIN dec_solstice : y + 1 \in DOMAIN dec_solstice }

\* C3: with yearStart the start of natural year Y at the date's longitude,
\* the instant yearStart - 1 ms is in year Y - 1 as its last day
\* (dayOfYear = yearDuration), and the instant yearStart is in year Y with
\* dayOfYear = 1, moon = 1 and time = 0.
C3_YearTransition ==
    date.constructed =>
        \A g \in ContextYears :
            \A yearStart \in {YearContext(g, date.longitude).start} :
                /\ date.unixTime = yearStart =>
                       /\ date.year = g - getUTCFullYear(END_OF_ARTIFICIAL_TIME) + 1
                       /\ date.dayOfYear = 1
                       /\ date.moon = 1
                       /\ date.time = 0
                /\ date.unixTime = Plus(yearStart, -1) =>
                       /\ date.year = g - getUTCFullYear(END_OF_ARTIFICIAL_TIME)
                       /\ date.dayOfYear = date.yearDuration

\* C4: isRainbowDay is true exactly when dayOfYear > 364, and moon = 14
\* exactly on rainbow days.
C4_RainbowExclusive ==
    date.constructed =>
        /\ date.isRainbowDay <=> date.dayOfYear > 364
        /\ date.moon = 14 <=> date.isRainbowDay

\* the second rainbow day of a 366-day year
C4_Witness ==
    /\ date.constructed
    /\ date.isRainbowDay
    /\ date.dayOfYear = 366
    /\ date.moon = 14

\* C5: moon in 1..14, week in 1..53, weekOfMoon in 1..4, dayOfYear in
\* 1..366, dayOfMoon in 1..28, dayOfWeek in 1..7, yearDuration 365 or 366.
C5_FieldRanges ==
    date.constructed =>
        /\ date.moon \in 1..14
        /\ date.week \in 1..53
        /\ date.weekOfMoon \in 1..4
        /\ date.dayOfYear \in 1..366
        /\ date.dayOfMoon \in 1..28
        /\ date.dayOfWeek \in 1..7
        /\ date.yearDuration \in {365, 366}

\* the last day of a 366-day year: every field at the top of its range but
\* the day of the week
C5_Witness ==
    /\ date.constructed
    /\ date.yearDuration = 366
    /\ date.dayOfYear = 366
    /\ date.week = 53
    /\ date.moon = 14
    /\ date.weekOfMoon = 1
    /\ date.dayOfMoon = 2

\* (UTC time of day in degrees + longitude) mod 360 and the time field, both
\* in half-milliseconds of rotation
UtcPlusLongitude(d) ==
    (2 * d.unixTime.ms + d.longitude) % (2 * MILLISECONDS_PER_DAY)

C7_NadirMonotone ==
    date.constructed =>
        \A t2 \in InstantsAt(date.longitude) :
            NotAfter(date.unixTime, t2) =>
                NotAfter(date.nadir,
                         NaturalDate(yearContextCache, t2, date.longitude).date.nadir)

\* two instants on either side of a natural new year
C7_Witness ==
    /\ date.constructed
    /\ \E t2 \in InstantsAt(date.longitude) :
           \E d2 \in {NaturalDate(yearContextCache, t2, date.longitude).date} :
               /\ Before(date.unixTime, t2)
               /\ d2.year = date.year + 1
               /\ Before(date.nadir, d2.nadir)

\* at least four days from the Unix epoch
FarFromEpoch(t) == t.d >= 4 \/ t.d < -4

\* the whole millisecond next to t on the side of the epoch
TowardsEpoch(t) ==
    IF t.d < 0 THEN Plus(t, 1)
    ELSE IF t = Instant(0, 0) THEN t ELSE Plus(t, -1)

\* new Date(d.nadir + (d.time / 360) * MILLISECONDS_PER_DAY) in double
\* arithmetic.  d.time, the quotient and the product are each rounded to 53
\* bits, so the product is the day's milliseconds to within 2^-25; the sum is
\* rounded again and new Date drops its fraction towards zero.  From 2^28 ms
\* (3.1 days) from the epoch on, doubles are at least 2^-24 apart and the sum
\* rounds to the whole millisecond; nearer the epoch it may fall just short
\* of it, as for new NaturalDate(9, 0): 0 + (3.75e-05 / 360) * 86400000 is
\* 8.999999999999998.
Reconstructed(d) ==
    LET exact == Plus(d.nadir, d.time)
    IN  IF d.time = 0 \/ FarFromEpoch(exact)
        THEN {exact}
        ELSE {exact, TowardsEpoch(exact)}

NoonAfter(s) ==
    IF s.ms < NoonMs THEN [d |-> s.d, ms |-> NoonMs]
    ELSE [d |-> s.d + 1, ms |-> NoonMs]

C10_YearContextIdempotent ==
    [][ /\ \A k \in DOMAIN yearContextCache :
               /\ k \in DOMAIN yearContextCache'
               /\ yearContextCache'[k] = yearContextCache[k]
        /\ context'.called =>
               /\ CacheKey(context'.year, context'.longitude)
                      \in DOMAIN yearContextCache'
               /\ \A first \in {YearContext(context'.year, context'.longitude)} :
                      /\ context'.start = first.start
                      /\ context'.duration = first.duration
                      /\ yearContextCache'[CacheKey(context'.year, context'.longitude)]
                             = first
      ]_vars

\* a call answered from a cache that holds the same year at another longitude
C10_Witness ==
    /\ context.called
    /\ context.hit
    /\ \E k \in DOMAIN yearContextCache :
           k[1] = context.year /\ k[2] # context.longitude

\* C11: day counts whole natural days since the reference epoch on the grid
\* of nadir: nadir = END_OF_ARTIFICIAL_TIME + (180 - L) * MS_PER_DAY / 360
\* + day * MS_PER_DAY (read here to the millisecond: nadir is that value or
\* the whole millisecond next to it); hence day is one more on the next
\* natural day, also across natural years and before the epoch, and never
\* decreases as the instant increases.
C11_DayOnNadirGrid ==
    date.constructed =>
        /\ \E below \in {Plus(PlusDays(END_OF_ARTIFICIAL_TIME, date.day),
                              LongitudeShift(date.longitude) \div 2)} :
               IF LongitudeShift(date.longitude) % 2 = 0
               THEN date.nadir = below
               ELSE date.nadir \in {below, Plus(below, 1)}
        /\ \A t2 \in InstantsAt(date.longitude) :
               \A d2 \in {NaturalDate(yearContextCache, t2, date.longitude).date} :
                   /\ d2.nadir = PlusDays(date.nadir, 1) => d2.day = date.day + 1
                   /\ NotAfter(date.unixTime, t2) => date.day <= d2.day

\* C12: for a NaturalDate d and an event instant e, getTimeOfEvent gives
\* (e - d.nadir) * 360 / MS_PER_DAY when d.nadir <= e <= d.nadir + MS_PER_DAY
\* and false for every other e.
C12_TimeOfEvent ==
    event.asked =>
        IF NotAfter(date.nadir, event.at)
           /\ NotAfter(event.at, PlusDays(date.nadir, 1))
        THEN /\ event.result.found
             /\ Plus(date.nadir, event.result.degrees) = event.at
        ELSE ~event.result.found

\* an event at the very end of the natural day reads 360 degrees
C12_Witness ==
    /\ event.asked
    /\ event.at = PlusDays(date.nadir, 1)
    /\ event.result.found
    /\ event.result.degrees = DegreesOfTime(360)

SunKinds ==
    {"sunrise", "sunset", "nightStart", "nightEnd",
     "morningGoldenHour", "eveningGoldenHour"}

EveningKinds == {"sunset", "nightStart", "eveningGoldenHour"}

\* the event of a kind does not occur during the natural day of d: the
\* oracle finds none, or finds it outside [d.nadir, d.nadir + MS_PER_DAY]
DoesNotOccur(kind, d, latitude) ==
    \A found \in {Search(kind, latitude, d.longitude, d.nadir)} :
        \/ ~found.found
        \/ Before(found.date, d.nadir)
        \/ Before(PlusDays(d.nadir, 1), found.date)

\* the value C13 gives to an event that does not occur
Fallback(kind, d, latitude) ==
    IF ~isSummerSeason(d.dayOfYear, latitude) THEN DegreesOfTime(180)
    ELSE IF kind \in EveningKinds THEN DegreesOfTime(360) ELSE 0

\* C13: whenever a sun event does not occur during the natural day, sunrise,
\* nightEnd and morningGoldenHour are 0 when isSummer holds and 180
\* otherwise, and sunset, nightStart and eveningGoldenHour are 360 when
\* isSummer holds and 180 otherwise.
C13_SunEventFallback ==
    (sun.called /\ sun.ok) =>
        \A kind \in SunKinds :
            DoesNotOccur(kind, sun.of, sun.latitude.value) =>
                sun.events[kind] = Fallback(kind, sun.of, sun.latitude.value)

ValidSunDates ==
    { d \in { NaturalDate(yearContextCache, input[1], input[2]).date :
                  input \in SunDates } : isValidNaturalDate(d) }

ValidSunLatitudes == { l.value : l \in {x \in SunLatitudes : isValidLatitude(x)} }

\* C15: in any sequence of calls NaturalSunEvents(d, latitude) returns what
\* an uncached computation for d's natural day, latitude and longitude
\* returns; the result is the same for every instant of the natural day and
\* does not depend on earlier calls for other days, latitudes or longitudes;
\* a cache hit returns the stored set without calling the oracle.
C15_SunCacheTransparent ==
    /\ (sun.called /\ sun.ok) =>
           /\ sun.events = SunEvents(sun.of, sun.latitude.value)
           /\ sun.hit => sun.searches = 0
           /\ astroCache[SunCacheKey(sun.of, sun.latitude.value)] = sun.events
    /\ \A dates \in {ValidSunDates} :
           \A latitude \in ValidSunLatitudes : \A d \in dates :
               \A events \in {NaturalSunEvents(astroCache, d, latitude).events} :
                   /\ events = SunEvents(d, latitude)
                   /\ \A d2 \in dates :
                          (d2.longitude = d.longitude /\ d2.nadir = d.nadir) =>
                              SunEvents(d2, latitude) = events

\* a hit for the second instant of a day, with other days, latitudes and
\* longitudes in the cache
C15_Witness ==
    /\ sun.called
    /\ sun.ok
    /\ sun.hit
    /\ sun.of.unixTime = DateUTC(2013, 5, 21, 18, 0, 0)
    /\ Cardinality(DOMAIN astroCache) >= 4

\* two successive MustachesRange calls that both returned, on dates of the
\* same year by the given calendar and with the same latitude
SameYearCalls(yearOf(_)) ==
    /\ range.called /\ range.ok
    /\ range'.called /\ range'.ok
    /\ yearOf(range.of.unixTime) = yearOf(range'.of.unixTime)
    /\ range.latitude = range'.latitude

\* C16: two MustachesRange calls on dates of the same Gregorian year with the
\* same latitude return equal results, whatever the longitudes of the dates,
\* their natural years and the calls made before
C16_RangeOfYearAndLatitude ==
    [][SameYearCalls(getUTCFullYear) => range'.result = range.result]_vars

\* the same with the year read in the time zone of the process
C16_RangeOfLocalYearAndLatitude ==
    [][SameYearCalls(getFullYear) => range'.result = range.result]_vars

\* a supplied longitude that is a finite number in [-180, 180]
FiniteInRange(longitude) ==
    /\ longitude.type = "number"
    /\ longitude.value >= Degrees(-180)
    /\ longitude.value <= Degrees(180)

\* an instant argument that cannot be parsed into a finite absolute time
Unparseable(dateArg) ==
    dateArg.type \in {"NaN", "string"}

\* a constructor call with an invalid input: a longitude outside [-180, 180]
\* or an unparseable instant
InvalidConstructorCall(call) ==
    /\ call.called
    /\ \/ call.longitude.type = "number" /\ ~FiniteInRange(call.longitude)
       \/ Unparseable(call.date)

\* C17: an operation called with an invalid input raises an error and leaves
\* the year-context cache and the celestial-event cache as they were; here
\* for the constructor
C17_ValidationPrecedesEffects ==
    [][InvalidConstructorCall(given')
           => /\ thrown' # ""
              /\ yearContextCache' = yearContextCache
              /\ astroCache' = astroCache]_vars

\* the same for NaturalSunEvents and MustachesRange: a call with an invalid
\* latitude or an invalid NaturalDate raises an error and changes no cache
CelestialValidationFirst ==
    [][(\/ sun' # sun /\ (~isValidLatitude(sun'.latitude)
                             \/ ~isValidNaturalDate(sun'.of))
        \/ range' # range /\ (~isValidLatitude(range'.latitude)
                                 \/ ~isValidNaturalDate(range'.of)))
           => /\ thrown' # ""
              /\ yearContextCache' = yearContextCache
              /\ astroCache' = astroCache]_vars

\* C18: a supplied longitude is accepted exactly when it is a finite number
\* in [-180, 180]; any other fails with the longitude error and no
\* NaturalDate is produced
C18_LongitudeAccepted ==
    given.called /\ given.longitude # Undefined
        => IF FiniteInRange(given.longitude)
           THEN thrown # "Longitude must be between -180 and +180"
           ELSE /\ thrown = "Longitude must be between -180 and +180"
                /\ ~given.returned

\* C19: for a numeric timestamp t of the range of Date (0 and negative ones
\* included) and a valid longitude, the NaturalDate is constructed with
\* unixTime = t and its fields are those computed from t
C19_InstantRetained ==
    (/\ given.called
     /\ given.date.type = "number" /\ getTime(given.date) # NaN
     /\ given.longitude # Undefined /\ FiniteInRange(given.longitude))
        => /\ given.returned
           /\ date.unixTime = given.date.value
           /\ date = NaturalDate(<<>>, given.date.value,
                                 given.longitude.value).date

\* C20: a constructor call without longitude that has an instant to work on
\* returns a NaturalDate of longitude 0 whose fields are those of
\* NaturalDate(instant, 0)
C20_DefaultLongitude ==
    (/\ given.called
     /\ given.longitude = Undefined
     /\ IsFalsy(given.date) \/ getTime(given.date) # NaN)
        => /\ given.returned
           /\ date.longitude = 0
           /\ date = NaturalDate(<<>>, date.unixTime, 0).date

\* a date before 1970 constructed without longitude while the cache holds
\* the year context of another longitude
C20_Witness ==
    /\ given.called /\ given.returned
    /\ given.longitude = Undefined
    /\ given.date = Number(DateUTC(1969, 5, 21, 12, 0, 0))
    /\ date.longitude = 0
    /\ date.year = -43
    /\ \E key \in DOMAIN yearContextCache : key # CacheKey(1968, 0)

\* C21: NaturalMoonPosition with a valid NaturalDate and a valid latitude
\* raises no error, and returns the zeroed result when a call of the oracle
\* throws
C21_MoonPositionDegrades ==
    (moon.called /\ moon.op = "NaturalMoonPosition" /\ moon.valid)
        => /\ moon.ok
           /\ MoonSkyAt(moon.latitude.value, moon.of.longitude,
                        moon.of.unixTime).throws
                  => moon.result = ZeroPosition

\* C22: a moonrise (moonset) that does not happen within the natural day is
\* reported as false, and a number only for an event at that degree
C22_MoonAbsenceSentinel ==
    (moon.called /\ moon.op = "NaturalMoonEvents" /\ moon.ok)
        => \A kind \in {"moonrise", "moonset"} :
               moon.result[kind] =
                   getMoonEventTimeOrFalse(
                       moon.of,
                       SearchMoon(kind, moon.latitude.value,
                                  moon.of.longitude, moon.of.nadir))

\* C23: when Seasons cannot compute a solstice, calculateYearContext throws
\* and the error leaves the constructor: no NaturalDate is built, the date
\* held before stays, no entry is stored under the failing key, and the next
\* call for that key throws again instead of finding one
C23_EraErrorPropagates ==
    [][/\ thrown' = "Seasons"
           => /\ context'.threw
              /\ CacheKey(context'.year, context'.longitude)
                     \notin DOMAIN yearContextCache'
              /\ date' = date
              /\ given' # given => ~given'.returned
       /\ (/\ thrown = "Seasons"
           /\ context'.year = context.year
           /\ context'.longitude = context.longitude)
           => thrown' = "Seasons"]_vars

\* the constructor called on the second day of natural year 2 when the
\* oracle stops at 2013: the context of 2012 is stored, that of 2013 throws
C23_Witness ==
    /\ thrown = "Seasons"
    /\ given.called /\ ~given.returned
    /\ given.date = Number(DateUTC(2013, 11, 23, 12, 0, 0))
    /\ context.year = 2013
    /\ given.longitude = Number(context.longitude)
    /\ CacheKey(2012, context.longitude) \in DOMAIN yearContextCache
    /\ CacheKey(2013, context.longitude) \notin DOMAIN yearContextCache
    /\ date.constructed

\* a latitude of the other hemisphere
OtherHemisphere(latitude) == IF latitude >= 0 THEN -45 ELSE 45

\* C24: on every day of the year the summer flag of a Northern latitude is
\* the negation of the flag of a Southern latitude
C24_SeasonsComplementary ==
    (sun.called /\ sun.ok)
        => isSummerSeason(sun.of.dayOfYear, sun.latitude.value)
               # isSummerSeason(sun.of.dayOfYear,
                                OtherHemisphere(sun.latitude.value))

\* C25: an event the oracle finds later than nadir + MS_PER_DAY is not of this
\* natural day, and its field takes the fallback of the season
C25_SearchBoundedToDay ==
    (sun.called /\ sun.ok) =>
        \A kind \in SunKinds :
            \A found \in {Search(kind, sun.latitude.value, sun.of.longitude,
                                 sun.of.nadir)} :
                (found.found /\ Before(PlusDays(sun.of.nadir, 1), found.date))
                    => sun.events[kind]
                           = Fallback(kind, sun.of, sun.latitude.value)

\* the callers that have returned
Done == {caller \in DOMAIN callers : callers[caller].pc = "done"}

\* C26: callers that ask for the same absent key at the same time all
\* receive the same value, whatever the order of their lookups, computations
\* and stores; the cache holds that value under the key, and holds no key
\* but those of callers that have returned
C26_ConcurrentPopulationConverges ==
    /\ \A c1 \in Done :
           /\ Cached(callers[c1].request) = {callers[c1].value}
           /\ \A c2 \in Done :
                  callers[c2].request = callers[c1].request
                      => callers[c2].value = callers[c1].value
    /\ DOMAIN yearContextCache
           = { CacheKey(callers[c].request.artificialYear,
                        callers[c].request.longitude) :
                   c \in {d \in Done :
                              callers[d].request.op = "calculateYearContext"} }
    /\ DOMAIN astroCache
           = { SunCacheKey(CallersDate, callers[c].request.latitude) :
                   c \in {d \in Done :
                              callers[d].request.op = "NaturalSunEvents"} }

\* two callers that both missed the key, both computed and both stored
C26_Witness ==
    /\ {1, 2} \subseteq Done
    /\ callers[1].request = callers[2].request
    /\ ~callers[1].hit
    /\ ~callers[2].hit

\* C27: at the longitude of any date, the natural year of g + 1 starts where
\* the natural year of g ends: start(g + 1) = start(g) + duration(g) days
C27_YearsTile ==
    date.constructed =>
        \A g \in ContextYears :
            g + 1 \in ContextYears =>
                \A this \in {YearContext(g, date.longitude)} :
                    YearContext(g + 1, date.longitude).start
                        = PlusDays(this.start, this.duration)

\* C28: every NaturalDate the constructor builds passes isValidNaturalDate,
\* the test at the entry of the celestial operations
C28_ConstructedIsValid ==
    date.constructed => isValidNaturalDate(date)

\* C29: an event instant that gets degrees from getTimeOfEvent on a natural
\* day gets a result below 360, and gets none on the natural day that starts
\* at nadir + MS_PER_DAY
C29_EventOfOneDay ==
    (event.asked /\ event.result.found)
        => /\ event.result.degrees < DegreesOfTime(360)
           /\ ~getTimeOfEvent([date EXCEPT !.nadir = PlusDays(@, 1)],
                              event.at).found

\* C30: whatever a caller has written into the results it was given, a
\* NaturalSunEvents call returns the values computed for its arguments
C30_ResultsNotAliased ==
    [][\A latitude \in AliasLatitudes :
           sunEvents(latitude) /\ sun'.ok
               => sun'.events = SunEvents(sun'.of, sun'.latitude.value)]_vars

====
